---- MODULE Spec2Model ----
(***************************************************************************)
(* Client-side session and authorization of the jewelry ERP frontend:      *)
(* localStorage ('token', 'user'), the axios client's interceptors, the    *)
(* React Query cache entries ['auth','me'] and ['orgConfig'], the useAuth  *)
(* hook (identity query, login mutation, logout), the Login page, the      *)
(* Dashboard's effect and the AdminProtectedRoute guard.                   *)
(***************************************************************************)
EXTENDS FiniteSets, Integers, Sequences, TLC

\* ----------------------------------------------------------------- bounds
MaxInflight == 2    \* requests outstanding at once

\* ------------------------------------------------------ program constants
Unauthorized == 401 \* the status the response interceptor tears down on
OrgConfigRetry == 2 \* useOrgConfig: retry failed requests twice

\* ------------------------------------------------------------------ data
\* User snapshots as the backend returns them (role and tenant are what the
\* client reads).
NoUser == [role |-> "NONE", org |-> 0]
Users == { [role |-> "SUPER_ADMIN", org |-> 1],
           [role |-> "ORG_ADMIN",   org |-> 2],
           [role |-> "STAFF",       org |-> 3] }

\* The bearer token the backend issues; it identifies the user it was
\* issued to.
NoToken == "none"
TokenOf(u) == u.role
Tokens == {TokenOf(u) : u \in Users}
OwnerOf(t) == CHOOSE u \in Users : TokenOf(u) = t

\* What localStorage holds under 'user': the JSON text of the snapshot.
NoItem == <<>>
JSONstringify(u) == <<"{role:", u.role, ",org:", u.org, "}">>

\* The tenant configuration GET /org/config returns for a user.
NoConfig == <<>>
ConfigOf(u) == <<"config of org", u.org>>

\* Response statuses of a failed request: 401, another HTTP error, or 0 for
\* a network error (no response object).
FailStatus == {Unauthorized, 500, 0}

Routes == {"/login", "/dashboard", "/admin/config"}
\* /admin/users and /admin/organizations, the pages of the super admin.
AdminRoutes == {"/admin/users"}
Consumers == {"dash", "guard", "layout"}

\* A React Query cache entry; QAbsent and CAbsent are the evicted entries.
\* old records whether the data held came from a request sent before the
\* most recent logout(); observed whether a component calling useOrgConfig
\* is mounted (a query without observers stops retrying), invalidated whether
\* the data held was marked stale by invalidateQueries.
QAbsent == [data |-> NoUser, status |-> "loading", fetching |-> FALSE,
            old |-> FALSE]
CAbsent == [data |-> NoConfig, status |-> "loading", fetching |-> FALSE,
            failureCount |-> 0, waiting |-> FALSE, observed |-> FALSE,
            invalidated |-> FALSE]

\* The entry of an admin list query (['admin','users'] and
\* ['admin','organizations'], issued together by a page): observed while the
\* page is mounted, enabled as the page last rendered it, retry the number
\* of retries the mounted page asks for.
AAbsent == [observed |-> FALSE, enabled |-> FALSE, fetching |-> FALSE,
            waiting |-> FALSE, failureCount |-> 0, retry |-> 0]
Unmounted(q) == [q EXCEPT !.observed = FALSE, !.enabled = FALSE]

VARIABLES
  token,          \* localStorage 'token': NoToken or a token
  storeUser,      \* localStorage 'user': NoItem or JSON text
  idQ,            \* query cache entry ['auth','me']
  cfgQ,           \* query cache entry ['orgConfig']
  adminQ,         \* query cache entry of the admin lists
  net,            \* requests in flight
  location,       \* current route
  reloadPending,  \* window.location.href was assigned; the page will unload
  subs,           \* mounted components that called useAuth
  decision,       \* what AdminProtectedRoute last rendered
  reactQuery,     \* major version of @tanstack/react-query in the bundle
  lastOp          \* the operation that produced this state

vars == <<token, storeUser, idQ, cfgQ, adminQ, net, location, reloadPending, subs,
          decision, reactQuery, lastOp>>

\* ------------------------------------------------------------ derivations
\* useAuth: isAuthenticated
isAuthenticated == token # NoToken

\* The versions of @tanstack/react-query whose API the code is written
\* against: options onError and cacheTime of useQuery and the array form of
\* invalidateQueries are version 4's, isPending of a mutation is version 5's.
ReactQueryVersions == {4, 5}

\* useQuery's isLoading of an entry.  Version 4: status === 'loading', that
\* is no data yet, also for a query that is disabled and not fetching.
\* Version 5: no data yet and a fetch running.
IsLoading(q) ==
  IF reactQuery = 4 THEN q.status = "loading"
  ELSE q.status = "loading" /\ q.fetching

\* Identity state in the vocabulary {absent, loading, ready, errored}, as a
\* consumer of useAuth can observe it (user, isLoading).
IdentityState ==
  IF idQ.data # NoUser THEN "ready"
  ELSE IF IsLoading(idQ) THEN "loading"
  ELSE IF idQ.status = "error" THEN "errored"
  ELSE "absent"

CanSend == Cardinality(net) < MaxInflight

\* A request interceptor that attaches nothing.
BearerNever == NoToken

\* client.interceptors.request: the bearer credential attached to a request,
\* read from localStorage when the request is sent; none without a token.
Bearer == IF token # NoToken THEN token ELSE NoToken

Init ==
  /\ token = NoToken
  /\ storeUser = NoItem
  /\ idQ = QAbsent
  /\ cfgQ = CAbsent
  /\ adminQ = AAbsent
  /\ net = {}
  /\ location = "/login"
  /\ reloadPending = FALSE
  /\ subs = {}
  /\ decision = "none"
  /\ reactQuery \in ReactQueryVersions
  /\ lastOp = [op |-> "init"]

\* ------------------------------------------------------- shared fragments
\* navigate(path) of react-router: the route changes and the components of
\* the previous route unmount.
NavSubs(path) == IF path = location THEN subs ELSE {}
NavDecision(path) == IF path = location THEN decision ELSE "none"
NavConfig(path) ==
  IF path = location THEN cfgQ ELSE [cfgQ EXCEPT !.observed = FALSE]
NavAdmin(path) == IF path = location THEN adminQ ELSE Unmounted(adminQ)

\* A response interceptor that tears the session down on every error.
ResponseHookAnyError(status) ==
  [token |-> NoToken, storeUser |-> NoItem, reload |-> TRUE]

\* A response interceptor that forgets the redirect.
ResponseHookNoRedirect(status) ==
  IF status = Unauthorized
    THEN [token |-> NoToken, storeUser |-> NoItem, reload |-> reloadPending]
    ELSE [token |-> token, storeUser |-> storeUser, reload |-> reloadPending]

\* A response interceptor that removes the token alone.
ResponseHookKeepsUser(status) ==
  IF status = Unauthorized
    THEN [token |-> NoToken, storeUser |-> storeUser, reload |-> TRUE]
    ELSE [token |-> token, storeUser |-> storeUser, reload |-> reloadPending]

\* A response interceptor that removes the user snapshot alone.
ResponseHookKeepsToken(status) ==
  IF status = Unauthorized
    THEN [token |-> token, storeUser |-> NoItem, reload |-> TRUE]
    ELSE [token |-> token, storeUser |-> storeUser, reload |-> reloadPending]

\* client.interceptors.response, error branch: what it leaves in
\* localStorage and whether it assigned window.location.href.
ResponseHook(status) ==
  IF status = Unauthorized
    THEN [token |-> NoToken, storeUser |-> NoItem, reload |-> TRUE]
    ELSE [token |-> token, storeUser |-> storeUser, reload |-> reloadPending]

\* A cache reset that leaves running fetches attached to their entries.
DetachedNone(n) == n

\* queryClient.clear(): every query is removed from the cache and its
\* running fetch is cancelled silently, so its result is dropped.
Detached(n) == { IF r.kind \in {"me", "cfg", "admin"} THEN [r EXCEPT !.live = FALSE] ELSE r
                 : r \in n }
Aged(n) == { IF r.kind = "me" THEN [r EXCEPT !.old = TRUE] ELSE r : r \in n }

\* A request as it is sent.  For the request of a query: live while that
\* query is the one in the cache, old once a logout() has happened since it
\* was sent.
Request(kind) == [kind |-> kind, tok |-> Bearer, live |-> TRUE, old |-> FALSE]

\* An observer that fetches on every mount, whether or not a fetch runs.
IdentityWillFetchAlways == isAuthenticated

\* useQuery(['auth','me']) when a component calling useAuth mounts:
\* the entry and the requests in flight afterwards.  enabled is read from
\* localStorage at render; the default staleTime of 0 makes every mount of
\* an enabled observer fetch unless a fetch is already running.
IdentityWillFetch == isAuthenticated /\ ~idQ.fetching
IdentityEntryOnMount ==
  IF IdentityWillFetch
    THEN [idQ EXCEPT !.fetching = TRUE,
                     !.status = IF idQ.data = NoUser THEN "loading" ELSE @]
    ELSE idQ
IdentityNetOnMount ==
  IF IdentityWillFetch THEN net \cup {Request("me")} ELSE net
MountAllowed(c) == (c \notin subs /\ IdentityWillFetch) => (CanSend /\ Request("me") \notin net)

\* AdminProtectedRoute: isAdmin of the user useAuth returned.
IsAdmin(u) == u.role = "admin" \/ u.role = "ORG_ADMIN"

\* A guard that does not look at the stored token.
GuardDecisionNoTokenCheck(q, tok) ==
  IF IsLoading(q) THEN "pending"
  ELSE IF ~IsAdmin(q.data) THEN "/dashboard"
  ELSE "children"

\* A guard without the role check.
GuardDecisionNoRoleCheck(q, tok) ==
  IF IsLoading(q) THEN "pending"
  ELSE IF tok = NoToken THEN "/login"
  ELSE "children"

\* AdminProtectedRoute, the decision it renders from useAuth's values.
GuardDecision(q, tok) ==
  IF IsLoading(q) THEN "pending"
  ELSE IF tok = NoToken THEN "/login"
  ELSE IF ~IsAdmin(q.data) THEN "/dashboard"
  ELSE "children"

\* What a failed response found: a stored token (had), or a store already
\* emptied with the hard navigation already under way (again).
Found(op, status) ==
  [op |-> op, unauthorized |-> status = Unauthorized, had |-> token # NoToken,
   again |-> token = NoToken /\ storeUser = NoItem /\ reloadPending]

\* A logout that forgets the token.
LogoutStoreKeepsToken == [token |-> token, storeUser |-> NoItem]

\* useAuth.logout: what it leaves in localStorage.
LogoutStore == [token |-> NoToken, storeUser |-> NoItem]

\* useQuery's onError in useAuth: what it leaves in localStorage.
OnErrorStore == [token |-> NoToken, storeUser |-> NoItem]

\* Dashboard's useEffect, second branch: what it leaves in localStorage.
CleanupStore == [token |-> NoToken, storeUser |-> NoItem]

\* ---------------------------------------------------------------- actions
\* DashboardLayout (rendered by Dashboard while loading or with a user, and
\* by ConfigLayout inside the guard) calls useAuth.
MountLayout ==
  /\ "layout" \notin subs
  /\ \/ location = "/dashboard" /\ "dash" \in subs
        /\ (IsLoading(idQ) \/ idQ.data # NoUser)
     \/ location = "/admin/config" /\ decision = "children"
  /\ MountAllowed("layout")
  /\ idQ' = IdentityEntryOnMount
  /\ net' = IdentityNetOnMount
  /\ subs' = subs \cup {"layout"}
  /\ lastOp' = [op |-> "mount", had |-> isAuthenticated]
  /\ UNCHANGED <<reactQuery, adminQ, token, storeUser, cfgQ, location, reloadPending, decision>>

\* A cleanup that does not wait for the identity fetch.
InvalidTokenIgnoresLoading(q, tok) == q.data = NoUser /\ tok # NoToken

\* Dashboard's useEffect, the test of its second branch:
\* !isLoading && !user && token.
InvalidToken(q, tok) == ~IsLoading(q) /\ q.data = NoUser /\ tok # NoToken

\* Dashboard: render (useAuth) and its useEffect.
Dashboard ==
  /\ location = "/dashboard"
  /\ MountAllowed("dash")
  /\ LET q == IF "dash" \in subs THEN idQ ELSE IdentityEntryOnMount
         n == IF "dash" \in subs THEN net ELSE IdentityNetOnMount
         invalid == InvalidToken(q, token)
         leave == token = NoToken \/ invalid
     IN /\ idQ' = q
        /\ net' = n
        /\ token' = IF invalid THEN CleanupStore.token ELSE token
        /\ storeUser' = IF invalid THEN CleanupStore.storeUser ELSE storeUser
        /\ location' = IF leave THEN "/login" ELSE location
        /\ subs' = IF leave THEN {} ELSE subs \cup {"dash"}
        /\ cfgQ' = IF leave THEN NavConfig("/login") ELSE cfgQ
        /\ adminQ' = IF leave THEN NavAdmin("/login") ELSE adminQ
        /\ lastOp' = [op |-> "dashboard", had |-> isAuthenticated,
                       cleaned |-> invalid]
  /\ UNCHANGED <<reactQuery, reloadPending, decision>>

\* AdminProtectedRoute: render (useAuth) and the decision.
AdminProtectedRoute ==
  /\ location = "/admin/config"
  /\ MountAllowed("guard")
  /\ LET q == IF "guard" \in subs THEN idQ ELSE IdentityEntryOnMount
         n == IF "guard" \in subs THEN net ELSE IdentityNetOnMount
     IN /\ idQ' = q
        /\ net' = n
        /\ decision' = GuardDecision(q, token)
  /\ subs' = subs \cup {"guard"}
  /\ lastOp' = [op |-> "guard", had |-> isAuthenticated, was |-> decision]
  /\ UNCHANGED <<reactQuery, adminQ, token, storeUser, cfgQ, location, reloadPending>>

\* <Navigate to=... replace /> rendered by the guard.
GuardNavigate ==
  /\ decision \in {"/login", "/dashboard"}
  /\ location' = decision
  /\ subs' = {}
  /\ decision' = "none"
  /\ cfgQ' = NavConfig(decision)
  /\ adminQ' = NavAdmin(decision)
  /\ lastOp' = [op |-> "navigate"]
  /\ UNCHANGED <<reactQuery, token, storeUser, idQ, net, reloadPending>>

\* Soft navigation by the user (menu link, history back/forward).
GoTo(path) ==
  /\ path # location
  /\ location' = path
  /\ subs' = {}
  /\ decision' = "none"
  /\ cfgQ' = NavConfig(path)
  /\ adminQ' = NavAdmin(path)
  /\ lastOp' = [op |-> "goto"]
  /\ UNCHANGED <<reactQuery, token, storeUser, idQ, net, reloadPending>>

\* The document is loaded anew: a hard navigation completes, or the user
\* reloads or types a URL.  Everything in memory is gone; localStorage stays.
Reload(path) ==
  /\ reloadPending => path = "/login"
  /\ location' = path
  /\ reloadPending' = FALSE
  /\ idQ' = QAbsent
  /\ cfgQ' = CAbsent
  /\ adminQ' = AAbsent
  /\ net' = {}
  /\ subs' = {}
  /\ decision' = "none"
  /\ lastOp' = [op |-> "reload"]
  /\ UNCHANGED <<reactQuery, token, storeUser>>

\* A logout that leaves the query cache alone.
LogoutStepsNoClear ==
  << [do |-> "removeItem", arg |-> "token"],
     [do |-> "removeItem", arg |-> "user"],
     [do |-> "navigate", arg |-> "/login"] >>

\* The statements of a handler in source order, each with its argument.
LogoutSteps ==
  << [do |-> "removeItem", arg |-> "token"],
     [do |-> "removeItem", arg |-> "user"],
     [do |-> "clear", arg |-> "queryClient"],
     [do |-> "navigate", arg |-> "/login"] >>

\* A login mutation that signals the navigation first.
LoginMutationStepsNavigateFirst ==
  << [do |-> "navigate", arg |-> "/dashboard"],
     [do |-> "setItem", arg |-> "token"],
     [do |-> "setItem", arg |-> "user"],
     [do |-> "setQueryData", arg |-> "auth.me"] >>

\* onSuccess of the login mutation of useAuth.
LoginMutationSteps ==
  << [do |-> "setItem", arg |-> "token"],
     [do |-> "setItem", arg |-> "user"],
     [do |-> "setQueryData", arg |-> "auth.me"],
     [do |-> "navigate", arg |-> "/dashboard"] >>

\* Login.onSubmit after the response: it does not touch the query cache.
LoginPageSteps ==
  << [do |-> "setItem", arg |-> "token"],
     [do |-> "setItem", arg |-> "user"],
     [do |-> "navigate", arg |-> "/dashboard"] >>

\* Where each statement stands in a handler (0: not in it).
Pos(steps, do, arg) ==
  IF \E j \in 1..Len(steps) : steps[j] = [do |-> do, arg |-> arg]
    THEN CHOOSE j \in 1..Len(steps) : steps[j] = [do |-> do, arg |-> arg]
    ELSE 0
Plan(steps, to) ==
  [setToken |-> Pos(steps, "setItem", "token"),
   setUser |-> Pos(steps, "setItem", "user"),
   removeToken |-> Pos(steps, "removeItem", "token"),
   removeUser |-> Pos(steps, "removeItem", "user"),
   seed |-> Pos(steps, "setQueryData", "auth.me"),
   clear |-> Pos(steps, "clear", "queryClient"),
   navigate |-> Pos(steps, "navigate", to),
   to |-> to,
   end |-> Len(steps) + 1]
LogoutPlan == Plan(LogoutSteps, "/login")
LoginMutationPlan == Plan(LoginMutationSteps, "/dashboard")
LoginPagePlan == Plan(LoginPageSteps, "/dashboard")

\* Straight-line handlers: the value of each part of the state just before
\* the statement at position i (all statements done at plan.end); u is the
\* user of the login response.
Did(p, i) == p > 0 /\ p < i
TokenAt(plan, i, u) ==
  IF Did(plan.setToken, i) THEN TokenOf(u)
  ELSE IF Did(plan.removeToken, i) THEN LogoutStore.token
  ELSE token
UserAt(plan, i, u) ==
  IF Did(plan.setUser, i) THEN JSONstringify(u)
  ELSE IF Did(plan.removeUser, i) THEN LogoutStore.storeUser
  ELSE storeUser
IdentityAt(plan, i, u) ==
  IF Did(plan.clear, i) THEN QAbsent
  ELSE IF Did(plan.seed, i)
    THEN [idQ EXCEPT !.data = u, !.status = "success", !.old = FALSE]
  ELSE idQ
NetAt(plan, i, n) == IF Did(plan.clear, i) THEN Aged(Detached(n)) ELSE n
NavigatedTo(plan) == IF plan.navigate = 0 THEN location ELSE plan.to
ConfigAfter(plan) ==
  IF plan.clear # 0 THEN CAbsent ELSE NavConfig(NavigatedTo(plan))
AdminAfter(plan) ==
  IF plan.clear # 0 THEN AAbsent ELSE NavAdmin(NavigatedTo(plan))

\* What localStorage held when the handler touched the query cache, and what
\* store and identity cache held when it signalled the navigation.
AtCache(plan, u) ==
  IF plan.clear # 0
    THEN [token |-> TokenAt(plan, plan.clear, u),
          storeUser |-> UserAt(plan, plan.clear, u)]
  ELSE IF plan.seed # 0
    THEN [token |-> TokenAt(plan, plan.seed, u),
          storeUser |-> UserAt(plan, plan.seed, u)]
  ELSE <<>>
AtNav(plan, u) ==
  [token |-> TokenAt(plan, plan.navigate, u),
   storeUser |-> UserAt(plan, plan.navigate, u),
   user |-> IdentityAt(plan, plan.navigate, u).data]

\* useAuth.logout (the Logout button of DashboardLayout); the handler can
\* be invoked once more before the layout it belongs to is gone.
Logout ==
  /\ "layout" \in subs \/ lastOp.op = "logout"
  /\ token' = TokenAt(LogoutPlan, LogoutPlan.end, NoUser)
  /\ storeUser' = UserAt(LogoutPlan, LogoutPlan.end, NoUser)
  /\ idQ' = IdentityAt(LogoutPlan, LogoutPlan.end, NoUser)
  /\ cfgQ' = ConfigAfter(LogoutPlan)
  /\ adminQ' = AdminAfter(LogoutPlan)
  /\ net' = NetAt(LogoutPlan, LogoutPlan.end, net)
  /\ location' = NavigatedTo(LogoutPlan)
  /\ subs' = NavSubs(NavigatedTo(LogoutPlan))
  /\ decision' = NavDecision(NavigatedTo(LogoutPlan))
  /\ lastOp' = [op |-> "logout", had |-> token # NoToken,
                 again |-> lastOp.op = "logout",
                 atCache |-> AtCache(LogoutPlan, NoUser),
                 atNav |-> AtNav(LogoutPlan, NoUser)]
  /\ UNCHANGED <<reactQuery, reloadPending>>

LoginKinds == {"loginPage", "loginMutation"}

\* POST /auth/login is sent: Login.onSubmit (via = "loginPage") or the login
\* mutation of useAuth (via = "loginMutation").
LoginSubmit(via) ==
  /\ via = "loginPage" => location = "/login"
  /\ CanSend /\ Request(via) \notin net
  /\ net' = net \cup {Request(via)}
  /\ lastOp' = [op |-> "loginSubmit"]
  /\ UNCHANGED <<reactQuery, adminQ, token, storeUser, idQ, cfgQ, location, reloadPending, subs,
                 decision>>

\* What a successful login runs: onSuccess of the mutation, or the rest of
\* Login.onSubmit's try block.
LoginPlan(via) ==
  IF via = "loginMutation" THEN LoginMutationPlan ELSE LoginPagePlan

\* The login response arrives with {token, user}: the credentials sent were
\* those of u.
LoginOk(r, u) ==
  /\ r \in net /\ r.kind \in LoginKinds
  /\ LET plan == LoginPlan(r.kind)
     IN /\ token' = TokenAt(plan, plan.end, u)
        /\ storeUser' = UserAt(plan, plan.end, u)
        /\ idQ' = IdentityAt(plan, plan.end, u)
        /\ cfgQ' = ConfigAfter(plan)
        /\ adminQ' = AdminAfter(plan)
        /\ net' = NetAt(plan, plan.end, net \ {r})
        /\ location' = NavigatedTo(plan)
        /\ subs' = NavSubs(NavigatedTo(plan))
        /\ decision' = NavDecision(NavigatedTo(plan))
        /\ lastOp' = [op |-> r.kind, atCache |-> AtCache(plan, u),
                       atNav |-> AtNav(plan, u)]
  /\ UNCHANGED <<reactQuery, reloadPending>>

\* The login request fails: the response interceptor runs, then the caller
\* gets the error (setError on the page, the mutation's error state).
LoginFail(r, status) ==
  /\ r \in net /\ r.kind \in LoginKinds
  /\ LET h == ResponseHook(status)
     IN /\ token' = h.token
        /\ storeUser' = h.storeUser
        /\ reloadPending' = h.reload
  /\ net' = net \ {r}
  /\ lastOp' = Found("loginFail", status)
  /\ UNCHANGED <<reactQuery, adminQ, idQ, cfgQ, location, subs, decision>>

\* GET /auth/me succeeds with the user the request's token belongs to.
MeOk(r) ==
  /\ r \in net /\ r.kind = "me" /\ r.tok # NoToken
  /\ net' = net \ {r}
  /\ idQ' = IF r.live
              THEN [data |-> OwnerOf(r.tok), status |-> "success",
                    fetching |-> FALSE, old |-> r.old]
              ELSE idQ
  /\ lastOp' = [op |-> "meOk", old |-> r.old, live |-> r.live]
  /\ UNCHANGED <<reactQuery, adminQ, token, storeUser, cfgQ, location, reloadPending, subs, decision>>

\* GET /auth/me fails: response interceptor, then (retry: false) the query
\* goes to error and useQuery's onError of the mounted useAuth observers runs.
\* React Query invokes an onError given to useQuery in version 4, while an
\* observer of the query is mounted; version 5 ignores the option.
MeFail(r, status, called) ==
  /\ r \in net /\ r.kind = "me"
  /\ called <=> (reactQuery = 4 /\ r.live /\ subs # {})
  /\ net' = net \ {r}
  /\ LET h == ResponseHook(status)
         onError == called
     IN /\ token' = IF onError THEN OnErrorStore.token ELSE h.token
        /\ storeUser' = IF onError THEN OnErrorStore.storeUser ELSE h.storeUser
        /\ reloadPending' = h.reload
        /\ location' = IF onError THEN "/login" ELSE location
        /\ subs' = IF onError THEN NavSubs("/login") ELSE subs
        /\ decision' = IF onError THEN NavDecision("/login") ELSE decision
        /\ cfgQ' = IF onError THEN NavConfig("/login") ELSE cfgQ
        /\ adminQ' = IF onError THEN NavAdmin("/login") ELSE adminQ
        /\ lastOp' = [op |-> IF onError THEN "meFailOnError" ELSE "meFail",
                       unauthorized |-> Found("meFail", status).unauthorized,
                       had |-> Found("meFail", status).had,
                       again |-> Found("meFail", status).again,
                       live |-> r.live]
  /\ idQ' = IF r.live THEN [idQ EXCEPT !.status = "error", !.fetching = FALSE] ELSE idQ
  /\ UNCHANGED <<reactQuery>>

\* useOrgConfig in a component that mounts: enabled is read from
\* localStorage; data younger than staleTime (5 minutes) is served from the
\* cache, otherwise GET /org/config is sent unless a fetch is running.
UseOrgConfig(stale) ==
  /\ location # "/login"
  /\ LET fetch == isAuthenticated /\ ~cfgQ.fetching
                    /\ (cfgQ.data = NoConfig \/ stale \/ cfgQ.invalidated)
     IN /\ fetch => CanSend
        /\ cfgQ' = IF fetch
                     THEN [cfgQ EXCEPT !.fetching = TRUE,
                                       !.failureCount = 0,
                                       !.observed = TRUE,
                                       !.status = IF cfgQ.data = NoConfig
                                                    THEN "loading" ELSE @]
                     ELSE [cfgQ EXCEPT !.observed = TRUE]
        /\ net' = IF fetch THEN net \cup {Request("cfg")} ELSE net
        /\ lastOp' = [op |-> "useOrgConfig"]
  /\ UNCHANGED <<reactQuery, adminQ, token, storeUser, idQ, location, reloadPending, subs, decision>>

\* GET /org/config succeeds with the configuration of the token's tenant.
CfgOk(r) ==
  /\ r \in net /\ r.kind = "cfg" /\ r.tok # NoToken
  /\ net' = net \ {r}
  /\ cfgQ' = IF r.live
               THEN [data |-> ConfigOf(OwnerOf(r.tok)),
                     status |-> "success", fetching |-> FALSE,
                     failureCount |-> 0, waiting |-> FALSE,
                     observed |-> cfgQ.observed, invalidated |-> FALSE]
               ELSE cfgQ
  /\ lastOp' = [op |-> "cfgOk"]
  /\ UNCHANGED <<reactQuery, adminQ, token, storeUser, idQ, location, reloadPending, subs, decision>>

\* A retry option that never gives up.
ShouldRetryAlways(failureCount) == TRUE

\* retry: 2 of useOrgConfig: a failure is retried while fewer than two
\* failures came before it.
ShouldRetry(failureCount) == failureCount < OrgConfigRetry

\* GET /org/config fails: response interceptor, then the query schedules a
\* retry (retry: 2, while it has an observer) or goes to error.
CfgFail(r, status) ==
  /\ r \in net /\ r.kind = "cfg"
  /\ net' = net \ {r}
  /\ LET h == ResponseHook(status)
     IN /\ token' = h.token
        /\ storeUser' = h.storeUser
        /\ reloadPending' = h.reload
  /\ cfgQ' = IF ~r.live THEN cfgQ
             ELSE IF ShouldRetry(cfgQ.failureCount) /\ cfgQ.observed
               THEN [cfgQ EXCEPT !.failureCount = @ + 1, !.waiting = TRUE]
               ELSE [cfgQ EXCEPT !.failureCount = @ + 1, !.status = "error",
                                 !.fetching = FALSE]
  /\ lastOp' = Found("cfgFail", status)
  /\ UNCHANGED <<reactQuery, adminQ, idQ, location, subs, decision>>

\* The retry delay of the config query elapses: the request is sent again,
\* or, the last observer having unmounted meanwhile, the query goes to error.
CfgRetry ==
  /\ cfgQ.waiting
  /\ cfgQ.observed => (CanSend /\ Request("cfg") \notin net)
  /\ cfgQ' = IF cfgQ.observed
               THEN [cfgQ EXCEPT !.waiting = FALSE]
               ELSE [cfgQ EXCEPT !.waiting = FALSE, !.status = "error",
                                 !.fetching = FALSE]
  /\ net' = IF cfgQ.observed THEN net \cup {Request("cfg")} ELSE net
  /\ lastOp' = [op |-> "cfgRetry", sent |-> cfgQ.observed]
  /\ UNCHANGED <<reactQuery, adminQ, token, storeUser, idQ, location, reloadPending, subs, decision>>

\* Any other API call of a page (config pages, admin lists, activity logs).
OtherSend ==
  /\ location # "/login"
  /\ CanSend /\ Request("other") \notin net
  /\ net' = net \cup {Request("other")}
  /\ lastOp' = [op |-> "otherSend"]
  /\ UNCHANGED <<reactQuery, adminQ, token, storeUser, idQ, cfgQ, location, reloadPending, subs,
                 decision>>

OtherOk(r) ==
  /\ r \in net /\ r.kind = "other" /\ r.tok # NoToken
  /\ net' = net \ {r}
  /\ lastOp' = [op |-> "otherOk"]
  /\ UNCHANGED <<reactQuery, adminQ, token, storeUser, idQ, cfgQ, location, reloadPending, subs,
                 decision>>

OtherFail(r, status) ==
  /\ r \in net /\ r.kind = "other"
  /\ net' = net \ {r}
  /\ LET h == ResponseHook(status)
     IN /\ token' = h.token
        /\ storeUser' = h.storeUser
        /\ reloadPending' = h.reload
  /\ lastOp' = Found("otherFail", status)
  /\ UNCHANGED <<reactQuery, adminQ, idQ, cfgQ, location, subs, decision>>

\* A config page (General, Tax, Invoice, Numbering, Finance, Features,
\* rendered inside the guard) saves: PUT /config/<domain> is sent.
SaveSend ==
  /\ location = "/admin/config" /\ decision = "children"
  /\ CanSend /\ Request("save") \notin net
  /\ net' = net \cup {Request("save")}
  /\ lastOp' = [op |-> "saveSend"]
  /\ UNCHANGED <<reactQuery, adminQ, token, storeUser, idQ, cfgQ, location,
                 reloadPending, subs, decision>>

\* queryClient.invalidateQueries(['config', domain]) as the pages call it,
\* with the key as first argument.  Version 4 takes it as the query key and
\* touches the queries under it alone.  Version 5 takes the first argument
\* as the filters object; an array has no queryKey, so every query matches:
\* each is marked invalidated, and each that has an enabled observer is
\* fetched again (a running refetch is cancelled and restarted).
InvalidatesAll == reactQuery = 5
RefetchConfig ==
  InvalidatesAll /\ cfgQ.observed /\ isAuthenticated
    /\ ~(cfgQ.fetching /\ cfgQ.data = NoConfig)
RefetchIdentity ==
  InvalidatesAll /\ subs # {} /\ isAuthenticated
    /\ ~(idQ.fetching /\ idQ.data = NoUser)
ConfigInvalidated ==
  IF RefetchConfig
    THEN [cfgQ EXCEPT !.fetching = TRUE, !.failureCount = 0,
                      !.waiting = FALSE,
                      !.status = IF cfgQ.data = NoConfig THEN "loading" ELSE @,
                      !.invalidated = cfgQ.data # NoConfig]
  ELSE IF InvalidatesAll
    THEN [cfgQ EXCEPT !.invalidated = cfgQ.data # NoConfig]
  ELSE cfgQ
IdentityInvalidated ==
  IF RefetchIdentity
    THEN [idQ EXCEPT !.fetching = TRUE,
                     !.status = IF idQ.data = NoUser THEN "loading" ELSE @]
    ELSE idQ
Restarted(n, kind) ==
  { IF r.kind = kind THEN [r EXCEPT !.live = FALSE] ELSE r : r \in n }
    \cup {Request(kind)}
NetInvalidated(n) ==
  LET n1 == IF RefetchConfig THEN Restarted(n, "cfg") ELSE n
  IN IF RefetchIdentity THEN Restarted(n1, "me") ELSE n1

\* The save succeeds: onSuccess of the page's updateMutation.
SaveOk(r) ==
  /\ r \in net /\ r.kind = "save" /\ r.tok # NoToken
  /\ Cardinality(NetInvalidated(net \ {r})) <= MaxInflight
  /\ net' = NetInvalidated(net \ {r})
  /\ cfgQ' = ConfigInvalidated
  /\ idQ' = IdentityInvalidated
  /\ lastOp' = [op |-> "saveOk"]
  /\ UNCHANGED <<reactQuery, adminQ, token, storeUser, location, reloadPending, subs,
                 decision>>

\* The save fails: response interceptor, then onError shows the message.
SaveFail(r, status) ==
  /\ r \in net /\ r.kind = "save"
  /\ net' = net \ {r}
  /\ LET h == ResponseHook(status)
     IN /\ token' = h.token
        /\ storeUser' = h.storeUser
        /\ reloadPending' = h.reload
  /\ lastOp' = Found("saveFail", status)
  /\ UNCHANGED <<reactQuery, adminQ, idQ, cfgQ, location, subs, decision>>

\* The session core: every operation but the organization-config query.
Next ==
  \/ MountLayout
  \/ Dashboard
  \/ AdminProtectedRoute
  \/ GuardNavigate
  \/ \E path \in Routes : GoTo(path)
  \/ \E path \in Routes : Reload(path)
  \/ Logout
  \/ \E via \in LoginKinds : LoginSubmit(via)
  \/ \E r \in net, u \in Users : LoginOk(r, u)
  \/ \E r \in net, status \in FailStatus : LoginFail(r, status)
  \/ \E r \in net : MeOk(r)
  \/ \E r \in net, status \in FailStatus, called \in BOOLEAN : MeFail(r, status, called)
  \/ OtherSend
  \/ \E r \in net : OtherOk(r)
  \/ \E r \in net, status \in FailStatus : OtherFail(r, status)

Spec == Init /\ [][Next]_vars

\* Operations that end with a failed response passing the response interceptor.
FailOps == {"loginFail", "meFail", "meFailOnError", "cfgFail", "otherFail",
            "saveFail", "adminFail"}
Hook401 == lastOp.op \in FailOps /\ lastOp.unauthorized

\* The session together with the organization-config query, for two tenants
\* that log in through the Login page.
Tenants == {u \in Users : u.role # "SUPER_ADMIN"}

NextCfg ==
  \/ MountLayout
  \/ Dashboard
  \/ AdminProtectedRoute
  \/ GuardNavigate
  \/ \E path \in Routes : GoTo(path)
  \/ \E path \in Routes : Reload(path)
  \/ Logout
  \/ LoginSubmit("loginPage")
  \/ \E r \in net, u \in Tenants : LoginOk(r, u)
  \/ \E r \in net, status \in FailStatus : LoginFail(r, status)
  \/ \E r \in net : MeOk(r)
  \/ \E r \in net, status \in FailStatus, called \in BOOLEAN : MeFail(r, status, called)
  \/ \E stale \in BOOLEAN : UseOrgConfig(stale)
  \/ \E r \in net : CfgOk(r)
  \/ \E r \in net, status \in FailStatus : CfgFail(r, status)
  \/ CfgRetry

SpecCfg == Init /\ [][NextCfg]_vars

\* The config pages: one tenant's administrator, the guard, a reader of the
\* organization config and the save of a config domain.
Admins == {u \in Users : u.role = "ORG_ADMIN"}

NextPages ==
  \/ MountLayout
  \/ Dashboard
  \/ AdminProtectedRoute
  \/ GuardNavigate
  \/ \E path \in Routes : GoTo(path)
  \/ Logout
  \/ LoginSubmit("loginPage")
  \/ \E r \in net, u \in Admins : LoginOk(r, u)
  \/ \E r \in net, status \in FailStatus : LoginFail(r, status)
  \/ \E r \in net : MeOk(r)
  \/ \E r \in net, status \in FailStatus, called \in BOOLEAN : MeFail(r, status, called)
  \/ \E stale \in BOOLEAN : UseOrgConfig(stale)
  \/ \E r \in net : CfgOk(r)
  \/ \E r \in net, status \in FailStatus : CfgFail(r, status)
  \/ CfgRetry
  \/ SaveSend
  \/ \E r \in net : SaveOk(r)
  \/ \E r \in net, status \in FailStatus : SaveFail(r, status)

SpecPages == Init /\ [][NextPages]_vars

\* ------------------------------------------------------------------ claims
\* C1: an identity fetch sent before the most recent logout() never leaves a
\* user snapshot in the identity cache after that logout; its resolution is
\* discarded.
C1_NoStaleIdentityAfterLogout == idQ.data # NoUser => ~idQ.old

\* C1 witness: a GET /auth/me sent before logout() resolved after it, with a
\* new session already stored, and the cache holds nothing from it.
C1_Witness ==
  /\ lastOp.op = "meOk" /\ lastOp.old
  /\ token # NoToken
  /\ idQ.data = NoUser

\* C2: whenever the session has been destroyed, by whichever path, the
\* config cache holds nothing fetched under it (the page that a hard
\* navigation is about to unload is left aside).
C2_NoConfigWithoutSession ==
  (token = NoToken /\ ~reloadPending) => cfgQ.data = NoConfig

\* C3: after the response interceptor handled a 401, localStorage holds
\* neither token nor user and the identity cache holds no user.
C3_After401Evicted ==
  Hook401 => (token = NoToken /\ storeUser = NoItem /\ idQ.data = NoUser)

\* C4: every 401 teardown, the first as the later ones, ends in the same
\* state (store empty, hard navigation to the login surface under way), and
\* so does every onError teardown (store empty, route /login).
TornDown == token = NoToken /\ storeUser = NoItem /\ reloadPending
C4_TeardownIdempotent ==
  /\ Hook401 => TornDown
  /\ lastOp.op = "meFailOnError" =>
       (token = NoToken /\ storeUser = NoItem /\ location = "/login")

\* C4 witness: a second 401 arrived after the first had emptied the store.
C4_Witness == Hook401 /\ lastOp.again /\ TornDown

\* C5: at most one GET /auth/me is outstanding for the shared identity entry,
\* however many consumers mount; the entry is fetching exactly while it is.
IdentityFetches == {r \in net : r.kind = "me" /\ r.live}
C5_OneIdentityFetch ==
  /\ Cardinality(IdentityFetches) <= 1
  /\ idQ.fetching <=> IdentityFetches # {}

\* C5 witness: two consumers are mounted and one request is in flight.
C5_Witness ==
  /\ lastOp.op = "mount"
  /\ Cardinality(subs) >= 2
  /\ Cardinality({r \in net : r.kind = "me"}) = 1
  /\ idQ.fetching

\* C6: right after logout(), isAuthenticated is false whatever is in flight.
C6_LogoutThenNotAuthenticated == lastOp.op = "logout" => ~isAuthenticated

\* C6 witness: logout() of a stored session with an identity fetch and a
\* login request in flight.
C6_Witness ==
  /\ lastOp.op = "logout" /\ lastOp.had
  /\ \E r \in net : r.kind = "me"
  /\ \E r \in net : r.kind \in LoginKinds

\* C7: after a successful login isAuthenticated is true and the identity
\* cache is ready with the returned user, on every login path.
C7_LoginSeedsIdentity ==
  lastOp.op \in LoginKinds =>
    (isAuthenticated /\ idQ.data = OwnerOf(token) /\ ~idQ.fetching)

\* C8: a failed login changes neither localStorage nor the caches and
\* signals no navigation.
C8_FailedLoginChangesNothing ==
  [][lastOp'.op = "loginFail" =>
       UNCHANGED <<token, storeUser, idQ, cfgQ, location, reloadPending>>]_vars

\* C9: localStorage never holds a user snapshot without a token.
C9_UserOnlyWithToken == token = NoToken => storeUser = NoItem

\* C9 witness: a stored session was torn down by a 401.
C9_Witness == Hook401 /\ lastOp.had /\ token = NoToken /\ storeUser = NoItem

\* C10: the guard renders the waiting indicator while identity is loading
\* and redirects to /login when identity has settled absent or errored: it
\* never renders children or redirects to the landing surface then.
C10_SettledWithoutUserGoesToLogin ==
  lastOp.op = "guard" =>
    /\ IdentityState = "loading" => decision = "pending"
    /\ IdentityState \in {"absent", "errored"} => decision = "/login"

\* The guard rendered with identity ready for a user its predicate rejects.
GuardRejects ==
  lastOp.op = "guard" /\ IdentityState = "ready" /\ ~IsAdmin(idQ.data)

C12_AdminRolesAdmitted ==
  (lastOp.op = "guard" /\ IdentityState = "ready" /\ isAuthenticated) =>
    (decision = "children" <=> idQ.data.role \in {"ORG_ADMIN", "SUPER_ADMIN"})

\* C13: a useOrgConfig read made without a stored token yields no
\* configuration, and no GET /org/config is ever sent without a token (a
\* request carries the token that was stored when it was sent).  The page
\* that a hard navigation is about to unload is left aside.
C13_NoTokenNoConfigRequest ==
  ~reloadPending =>
    /\ (lastOp.op = "useOrgConfig" /\ ~isAuthenticated) => cfgQ.data = NoConfig
    /\ \A r \in net : r.kind = "cfg" => r.tok # NoToken

\* A component calling useAuth rendered while no token was stored.
AskedWithoutToken ==
  lastOp.op \in {"mount", "guard", "dashboard"} /\ ~lastOp.had

\* C14: a consumer asking for identity without a stored token gets no user
\* and no loading state, and no GET /auth/me is ever sent without a token.
C14_NoTokenNoIdentityFetch ==
  /\ AskedWithoutToken => (idQ.data = NoUser /\ ~IsLoading(idQ))
  /\ \A r \in net : r.kind = "me" => r.tok # NoToken

\* C15: a login has written {token, user} to localStorage before it seeds
\* the identity cache (where it seeds it) and before it signals the
\* navigation to /dashboard, and the seeding precedes the navigation; a
\* logout has emptied localStorage before it evicts the caches, and both
\* precede the navigation to /login.  What the handler leaves is what a
\* consumer reacting to the navigation finds.
C15_StoreThenCacheThenNavigate ==
  /\ lastOp.op \in LoginKinds =>
       /\ token # NoToken /\ storeUser # NoItem /\ location = "/dashboard"
       /\ lastOp.atNav = [token |-> token, storeUser |-> storeUser,
                          user |-> idQ.data]
       /\ lastOp.atCache # <<>> =>
            /\ lastOp.atCache = [token |-> token, storeUser |-> storeUser]
            /\ lastOp.atNav.user = OwnerOf(token)
  /\ lastOp.op = "logout" =>
       /\ token = NoToken /\ storeUser = NoItem /\ location = "/login"
       /\ lastOp.atCache = [token |-> NoToken, storeUser |-> NoItem]
       /\ lastOp.atNav = [token |-> NoToken, storeUser |-> NoItem,
                          user |-> NoUser]

\* C15 witness: a login through the mutation by a user other than the one
\* whose identity fetch is still in flight.
C15_Witness ==
  /\ lastOp.op = "loginMutation"
  /\ lastOp.atCache = [token |-> token, storeUser |-> storeUser]
  /\ lastOp.atNav.user = idQ.data /\ idQ.data # NoUser
  /\ \E r \in net : r.kind = "me" /\ r.tok # token

\* The operations that send a request.
SendOps == {"loginSubmit", "mount", "guard", "dashboard", "useOrgConfig",
            "cfgRetry", "otherSend"}

\* C16: a request that is sent carries as bearer credential exactly the
\* token localStorage holds at that moment, and none when it holds none.
C16_BearerIsStoredToken ==
  [][lastOp'.op \in SendOps => \A r \in net' \ net : r.tok = token]_vars

\* C16 witness: a request has just been sent with the stored token while an
\* earlier request, sent before the login, is in flight without credential.
C16_Witness ==
  /\ lastOp.op \in SendOps
  /\ token # NoToken
  /\ \E r \in net : r.tok = token
  /\ \E r \in net : r.tok = NoToken

\* Operations that end with a successful response passing the response
\* interceptor and a caller that stores nothing.
PassOps == {"meOk", "otherOk"}

SessionControllerOps == {"loginMutation", "logout", "meFailOnError"}

\* C18: localStorage is written, and the caches are evicted, by the session
\* controller alone (the 401 teardown of the transport's response
\* interceptor counted with it): no step of a page, a guard, the layout or
\* a config hook changes 'token' or 'user' or evicts a cache entry.
C18_OnlySessionControllerWrites ==
  [][(\/ token' # token
      \/ storeUser' # storeUser
      \/ (idQ # QAbsent /\ idQ' = QAbsent /\ lastOp'.op # "reload")
      \/ (cfgQ # CAbsent /\ cfgQ' = CAbsent /\ lastOp'.op # "reload"))
       => \/ lastOp'.op \in SessionControllerOps
          \/ lastOp'.op \in FailOps /\ lastOp'.unauthorized]_vars

\* C19: logout(), called with or without a session, leaves localStorage
\* empty, both cache entries evicted and the route /login, and a logout()
\* that follows a logout() changes nothing.
C19_LogoutIdempotent ==
  [][/\ lastOp'.op = "logout" =>
          (token' = NoToken /\ storeUser' = NoItem /\ idQ' = QAbsent
             /\ cfgQ' = CAbsent /\ location' = "/login")
     /\ (lastOp.op = "logout" /\ lastOp'.op = "logout") =>
          UNCHANGED <<token, storeUser, idQ, cfgQ, net, location,
                      reloadPending, subs, decision>>]_vars

\* C19 witness: logout() ran right after a logout(), with the identity
\* fetch of the former session still in flight.
C19_Witness ==
  /\ lastOp.op = "logout" /\ lastOp.again /\ ~lastOp.had
  /\ token = NoToken /\ idQ = QAbsent
  /\ \E r \in net : r.kind = "me" /\ ~r.live

\* C20: when the GET /auth/me of the identity entry has failed, no further
\* attempt is made for it (the entry is not fetching and no request of it is
\* in flight), the entry is errored, and the session counts as not
\* authenticated.
C20_FailedIdentityNotRetried ==
  (lastOp.op \in {"meFail", "meFailOnError"} /\ lastOp.live) =>
    /\ ~idQ.fetching /\ IdentityFetches = {}
    /\ idQ.status = "error"
    /\ ~isAuthenticated

\* Requests of the config query that are attached to the entry.
ConfigFetches == {r \in net : r.kind = "cfg" /\ r.live}

\* C21: a config fetch that keeps failing is attempted at most three times
\* (two retries): a retry is pending or on the wire only after at most two
\* failures, and the third failure leaves the entry in the error state with
\* nothing fetching, pending or in flight for it.
C21_ConfigRetriesBounded ==
  /\ cfgQ.failureCount <= OrgConfigRetry + 1
  /\ (cfgQ.waiting \/ ConfigFetches # {}) => cfgQ.failureCount <= OrgConfigRetry
  /\ cfgQ.failureCount = OrgConfigRetry + 1 =>
       (cfgQ.status = "error" /\ ~cfgQ.fetching /\ ~cfgQ.waiting
          /\ ConfigFetches = {})
  /\ (lastOp.op = "cfgRetry" /\ lastOp.sent) => cfgQ.failureCount \in 1..OrgConfigRetry

\* C21 witness: the third attempt of an observed config fetch has failed and
\* the entry is in error.
C21_Witness ==
  /\ lastOp.op = "cfgFail"
  /\ cfgQ.observed
  /\ cfgQ.failureCount = OrgConfigRetry + 1
  /\ cfgQ.status = "error" /\ ~cfgQ.fetching

\* ---------------------------------------------------------------- liveness
\* What happens without the user: every request is answered (axios settles
\* each call, with the response or with an error), mounted components render
\* and run their effects, a rendered <Navigate> navigates, an assigned
\* window.location.href loads the page.
AnswerLogin ==
  \E r \in net : \/ \E u \in Users : LoginOk(r, u)
                 \/ \E status \in FailStatus : LoginFail(r, status)
AnswerMe ==
  \E r \in net : \/ MeOk(r)
                 \/ \E status \in FailStatus, called \in BOOLEAN :
                      MeFail(r, status, called)
AnswerOther ==
  \E r \in net : \/ OtherOk(r)
                 \/ \E status \in FailStatus : OtherFail(r, status)
HardNavigation == reloadPending /\ Reload("/login")

Fairness ==
  /\ WF_vars(AnswerLogin)
  /\ WF_vars(AnswerMe)
  /\ WF_vars(AnswerOther)
  /\ WF_vars(Dashboard)
  /\ WF_vars(AdminProtectedRoute)
  /\ WF_vars(GuardNavigate)
  /\ WF_vars(HardNavigation)

SpecLive == Init /\ [][Next]_vars /\ Fairness

\* The guard is rendered and no token is stored.
GuardWithoutToken ==
  location = "/admin/config" /\ lastOp.op = "guard" /\ ~isAuthenticated

\* C24: once the guard is rendered with no token stored, its decision
\* becomes the redirect to /login, unless the user leaves the route or a
\* login stores a token first; it does not stay pending.
C24_NoTokenGuardRedirects ==
  GuardWithoutToken ~>
    (decision = "/login" \/ location # "/admin/config" \/ isAuthenticated)

\* A failure path has just run: a 401 passed the response interceptor, or a
\* GET /auth/me failed (also one detached by an earlier logout()).
FailureSeen == Hook401 \/ lastOp.op \in {"meFail", "meFailOnError"}

\* Steps the user takes: a link or the history, a submitted form, a page
\* action, the Logout button, a page load at a typed URL.
UserOps == {"goto", "loginSubmit", "otherSend", "logout"}
UserActed == lastOp.op \in UserOps \/ (lastOp.op = "reload" /\ location # "/login")

\* What is on screen: the login surface, or a page rendered for a stored
\* token with the user useAuth returns.
AtLogin == location = "/login" /\ ~reloadPending
Admitted ==
  /\ isAuthenticated /\ idQ.data # NoUser
  /\ \/ location = "/dashboard" /\ "dash" \in subs
     \/ location = "/admin/config" /\ decision = "children"

\* C22: after a failure, and unless the user acts first, the application
\* comes to show the login surface or a page the user is admitted to; it
\* does not stay on a waiting indicator or a blank page.
C22_FailureEndsShown == FailureSeen ~> (AtLogin \/ Admitted \/ UserActed)

\* C23: the organization-config entry is emptied by logout() alone, and a
\* successful save of a config domain leaves the entry as it was.
C23_ConfigEntryOnlyEvictedByLogout ==
  [][/\ (cfgQ.data # NoConfig /\ cfgQ'.data = NoConfig) => lastOp'.op = "logout"
     /\ lastOp'.op = "saveOk" => cfgQ' = cfgQ]_vars

\* C25: every evaluation of the guard made while no token is stored (after
\* logout() or a teardown, before a login succeeds) yields the waiting
\* indicator or the redirect to /login, never children, whatever the guard
\* rendered before.
C25_NoChildrenWithoutToken ==
  (lastOp.op = "guard" /\ ~isAuthenticated) => decision \in {"pending", "/login"}

\* C25 witness: the guard had admitted, the session was torn down, and the
\* next evaluation redirects to /login although the identity cache still
\* holds the admitted user.
C25_Witness ==
  /\ lastOp.op = "guard" /\ lastOp.was = "children"
  /\ ~isAuthenticated
  /\ IsAdmin(idQ.data)
  /\ decision = "/login"

\* C26: whenever a guard or a view reads the identity with a token stored and
\* gets a user, that user is the one the stored token was issued to.
C26_IdentityBelongsToToken ==
  (lastOp.op \in {"guard", "dashboard", "mount"} /\ isAuthenticated
     /\ idQ.data # NoUser) => idQ.data = OwnerOf(token)

\* C27: a 401 answering a request that was sent with the token of an earlier
\* session leaves the token and the user snapshot of the session stored now
\* in localStorage.
C27_Old401KeepsNewSession ==
  [][(lastOp'.op \in FailOps /\ lastOp'.unauthorized /\ isAuthenticated) =>
       \A r \in net \ net' :
          (r.tok # NoToken /\ r.tok # token) =>
             UNCHANGED <<token, storeUser>>]_vars

\* C28: the Dashboard changes localStorage only when a token is stored and
\* the identity fetch has failed and left no user; it leaves the store of a
\* session whose identity is loading or ready as it is.
C28_CleanupOnlyAfterFailedFetch ==
  [][lastOp'.op = "dashboard" =>
       /\ (token' # token \/ storeUser' # storeUser) =>
            /\ token # NoToken /\ token' = NoToken /\ storeUser' = NoItem
            /\ idQ'.data = NoUser /\ idQ'.status = "error" /\ ~idQ'.fetching
       /\ (idQ'.data # NoUser \/ idQ'.fetching) =>
            UNCHANGED <<token, storeUser>>]_vars

\* C28 witness: the Dashboard of a freshly logged-in session rendered while
\* the identity fetch was in flight and left the store alone; the fetch then
\* failed and the effect cleared the store.
C28_Witness ==
  /\ lastOp.op = "dashboard" /\ lastOp.cleaned /\ lastOp.had
  /\ token = NoToken /\ storeUser = NoItem
  /\ idQ.status = "error" /\ idQ.data = NoUser
  /\ location = "/login"

\* Failures of requests other than the identity fetch.
OtherFailOps == {"loginFail", "cfgFail", "saveFail", "otherFail"}

\* C29: a failure other than a 401, of a request other than GET /auth/me,
\* leaves localStorage, the identity entry, the cached configuration and the
\* route as they were, and no hard navigation is started; the failed query
\* of the config entry alone records the error for its caller.
C29_OtherFailureChangesNothing ==
  [][(lastOp'.op \in OtherFailOps /\ ~lastOp'.unauthorized) =>
       /\ UNCHANGED <<token, storeUser, idQ, location, reloadPending, subs,
                      decision>>
       /\ cfgQ'.data = cfgQ.data
       /\ lastOp'.op # "cfgFail" => cfgQ' = cfgQ
       /\ net' \subseteq net]_vars

\* C29 witness: a save failed with a status other than 401 in a session
\* with identity and configuration cached, and all of it is still there.
C29_Witness ==
  /\ lastOp.op = "saveFail" /\ ~lastOp.unauthorized /\ lastOp.had
  /\ token # NoToken /\ storeUser # NoItem
  /\ idQ.data = OwnerOf(token)
  /\ cfgQ.data = ConfigOf(OwnerOf(token))
  /\ location = "/admin/config" /\ ~reloadPending

\* ------------------------------------------------------------ admin pages
\* The numbers of retries an admin list query can run with: retry: false of
\* the query, or the QueryClient's default retry: 1 where the query sets none.
AdminListRetries == {0, 1}

\* ProtectedRoute around the admin pages: a waiting indicator while the
\* identity is loading, the children with a user, the login route otherwise.
ProtectedDecision(q) ==
  IF IsLoading(q) THEN "pending"
  ELSE IF q.data # NoUser THEN "children"
  ELSE "/login"

\* ProtectedRoute: render (useAuth) and the decision; a page it no longer
\* renders unmounts.
ProtectedRoute ==
  /\ location \in AdminRoutes
  /\ MountAllowed("guard")
  /\ LET q == IF "guard" \in subs THEN idQ ELSE IdentityEntryOnMount
         n == IF "guard" \in subs THEN net ELSE IdentityNetOnMount
         d == ProtectedDecision(q)
     IN /\ idQ' = q
        /\ net' = n
        /\ decision' = d
        /\ subs' = IF d = "children" THEN subs \cup {"guard"} ELSE {"guard"}
        /\ adminQ' = IF d = "children" THEN adminQ ELSE Unmounted(adminQ)
  /\ lastOp' = [op |-> "protected", had |-> isAuthenticated]
  /\ UNCHANGED <<reactQuery, token, storeUser, cfgQ, location, reloadPending>>

\* enabled of the admin list queries, from the user useAuth returned.
AdminEnabled(q) ==
  q.data # NoUser /\ q.data.role = "SUPER_ADMIN" /\ ~IsLoading(q)

\* Users / Organizations: render (useAuth, DashboardLayout, the list
\* queries).  An enabled observer fetches when it mounts and when enabled
\* turns true, unless the query is already fetching.
UsersPage(retry) ==
  /\ location \in AdminRoutes /\ decision = "children"
  /\ MountAllowed("layout")
  /\ adminQ.observed => retry = adminQ.retry
  /\ LET q == IF "layout" \in subs THEN idQ ELSE IdentityEntryOnMount
         n == IF "layout" \in subs THEN net ELSE IdentityNetOnMount
         enabled == AdminEnabled(q)
         fetch == /\ enabled /\ ~adminQ.fetching
                  /\ (~adminQ.observed \/ ~adminQ.enabled)
     IN /\ fetch => (Cardinality(n) < MaxInflight /\ Request("admin") \notin n)
        /\ idQ' = q
        /\ net' = IF fetch THEN n \cup {Request("admin")} ELSE n
        /\ adminQ' = [adminQ EXCEPT !.observed = TRUE, !.enabled = enabled,
                                    !.retry = retry,
                                    !.fetching = @ \/ fetch,
                                    !.failureCount = IF fetch THEN 0 ELSE @]
        /\ lastOp' = [op |-> "usersPage", sent |-> fetch]
  /\ subs' = subs \cup {"layout"}
  /\ UNCHANGED <<reactQuery, token, storeUser, cfgQ, location, reloadPending,
                 decision>>

\* GET /admin/users succeeds: the backend answers a super admin's token.
AdminListOk(r) ==
  /\ r \in net /\ r.kind = "admin"
  /\ r.tok # NoToken /\ OwnerOf(r.tok).role = "SUPER_ADMIN"
  /\ net' = net \ {r}
  /\ adminQ' = IF r.live
                 THEN [adminQ EXCEPT !.fetching = FALSE, !.failureCount = 0]
                 ELSE adminQ
  /\ lastOp' = [op |-> "adminOk"]
  /\ UNCHANGED <<reactQuery, token, storeUser, idQ, cfgQ, location,
                 reloadPending, subs, decision>>

\* GET /admin/users fails: response interceptor, then the query schedules a
\* retry (while it has an observer and retries left) or goes to error.
AdminListFail(r, status) ==
  /\ r \in net /\ r.kind = "admin"
  /\ net' = net \ {r}
  /\ LET h == ResponseHook(status)
     IN /\ token' = h.token
        /\ storeUser' = h.storeUser
        /\ reloadPending' = h.reload
  /\ adminQ' = IF ~r.live THEN adminQ
               ELSE IF adminQ.failureCount < adminQ.retry /\ adminQ.observed
                 THEN [adminQ EXCEPT !.failureCount = @ + 1, !.waiting = TRUE]
                 ELSE [adminQ EXCEPT !.failureCount = @ + 1,
                                     !.fetching = FALSE]
  /\ lastOp' = Found("adminFail", status)
  /\ UNCHANGED <<reactQuery, idQ, cfgQ, location, subs, decision>>

\* The retry delay of the list query elapses: the retryer calls the query
\* function again without reading enabled, or, the page having unmounted
\* meanwhile, the query goes to error.
AdminListRetry ==
  /\ adminQ.waiting
  /\ adminQ.observed => (CanSend /\ Request("admin") \notin net)
  /\ adminQ' = IF adminQ.observed
                 THEN [adminQ EXCEPT !.waiting = FALSE]
                 ELSE [adminQ EXCEPT !.waiting = FALSE, !.fetching = FALSE]
  /\ net' = IF adminQ.observed THEN net \cup {Request("admin")} ELSE net
  /\ lastOp' = [op |-> "adminRetry", sent |-> adminQ.observed]
  /\ UNCHANGED <<reactQuery, token, storeUser, idQ, cfgQ, location,
                 reloadPending, subs, decision>>

\* The admin pages: a super admin and a staff member who log in through the
\* Login page, the guard, and the list queries of a page.
Operators == {u \in Users : u.role \in {"SUPER_ADMIN", "STAFF"}}

NextAdmin ==
  \/ MountLayout
  \/ Dashboard
  \/ ProtectedRoute
  \/ \E retry \in AdminListRetries : UsersPage(retry)
  \/ GuardNavigate
  \/ \E path \in {"/login", "/dashboard"} \cup AdminRoutes : GoTo(path)
  \/ Logout
  \/ LoginSubmit("loginPage")
  \/ \E r \in net, u \in Operators : LoginOk(r, u)
  \/ \E r \in net : MeOk(r)
  \/ \E r \in net, status \in FailStatus, called \in BOOLEAN : MeFail(r, status, called)
  \/ \E r \in net : AdminListOk(r)
  \/ \E r \in net, status \in FailStatus : AdminListFail(r, status)
  \/ AdminListRetry

SpecAdmin == Init /\ [][NextAdmin]_vars

\* An admin list request was just issued: by a page's render or by a retry.
AdminListIssued ==
  lastOp.op \in {"usersPage", "adminRetry"} /\ lastOp.sent

\* C30: GET /admin/users and GET /admin/organizations are issued only while
\* the identity cache holds a user with role SUPER_ADMIN.
C30_AdminListsOnlyForSuperAdmin ==
  AdminListIssued => (idQ.data # NoUser /\ idQ.data.role = "SUPER_ADMIN")

====
